---- MODULE Spec2Model ----
(***************************************************************************)
(* The browser-session orchestration of jppdf / pdfjp: one Driver object   *)
(* is constructed, run() drives the translation page through its fixed     *)
(* script, the download watcher moves the staged file to path_ja, and the  *)
(* objects' __del__ methods release the browser and the download directory.*)
(* Time is counted in ticks of one WebDriverWait poll (500 ms).            *)
(***************************************************************************)
EXTENDS Integers, Sequences, FiniteSets, TLC

\* ------------------------------------------------------------ bounds
\* Longest file name (in characters) of the source paths that are tried.
MaxNameLen == 3

\* ------------------------------------------------------------ constants
\* click(): WebDriverWait(self.driver, 10)
CLICK_TIMEOUT == 10
\* The timeout for the translation to finish
TRANSLATION_TIMEOUT == 20
\* wait() / wait_to_finish(): timeout = 10, one check per second
WATCH_TIMEOUT == 10
\* ticks per second: WebDriverWait polls every 0.5 s
TicksPerSecond == 2

Variants == {"jppdf", "pdfjp"}
Chars    == {"a", "."}
Dirs     == {<<>>, <<"docs">>}
JA       == <<"_", "j", "a">>
Unset    == <<>>

\* File names a pathlib.Path can have: "" (no name) or any string other
\* than ".", which Path normalises away.
Names ==
  { n \in UNION { [1..k -> Chars] : k \in 0..MaxNameLen } : n # <<".">> }

Paths == [parent : Dirs, name : Names]

\* What the remote page and the browser do in one run: the moments (ticks
\* after the preceding step) at which the page makes a control clickable,
\* and (ticks after the download click) at which the browser has written
\* the staged file.
TranslateTimes == {0, 4, 21}
DownloadTimes  == {0, 16, 30, 41}
StagedTimes    == {6, 20, 21}

VARIABLES
  variant,      \* which of the two drivers runs
  debug,        \* the --debug flag
  path,         \* Driver.path
  path_ja,      \* Driver.path_ja (Unset before __init__ computes it)
  pc,           \* workflow state of run()
  life,         \* lifetime of the Driver object: "new", "alive", "driver_deleted", "exited"
  reason,       \* exception that ended the run, "none" otherwise
  options,      \* Options object: "none", "noattr", "dir", "cleaned"
  driverAttr,   \* self.driver has been assigned
  session,      \* browser session: "none", "open", "closed"
  tmpSession,   \* throwaway session of make_normal_user_agent
  staging,      \* file names present in the download directory
  dest,         \* content of the file at path_ja: "absent", "old", "new"
  destPre,      \* content of the file at path_ja before the run
  translateAt,  \* tick at which the translate control becomes clickable
  downloadAt,   \* tick at which the download control becomes clickable
  stagedAt,     \* tick at which the browser has written the staged file
  elapsed,      \* ticks spent in the current WebDriverWait
  waits,        \* per step: the helper that waited for the control and its timeout
  attempts,     \* iterations of the watcher's for loop
  observed,     \* an existence check of the watcher returned true
  delErrors,    \* AttributeErrors raised inside __del__ methods
  quitCalls,    \* calls of WebDriver.quit()
  stages,       \* workflow states entered so far, in order
  clock,        \* ticks slept by the watcher since the download click
  message,      \* message of the exception that ended the run
  acts          \* operations on the browser and the file system, in order,
                \* each with its outcome

vars == <<variant, debug, path, path_ja, pc, life, reason, options,
          driverAttr, session, tmpSession, staging, dest, destPre,
          translateAt, downloadAt, stagedAt, elapsed, waits,
          attempts, observed, delErrors, quitCalls, stages, clock,
          message, acts>>

\* ------------------------------------------------------------ pathlib
\* str.rfind('.') on a name, 1-based, 0 when there is no dot
rfind(name) ==
  LET dots == { i \in 1..Len(name) : name[i] = "." }
  IN  IF dots = {} THEN 0 ELSE CHOOSE i \in dots : \A j \in dots : j <= i

\* PurePath.suffix: name[i:] if 0 < i < len(name) - 1 (0-based) else ''
suffix(name) ==
  LET i == rfind(name)
  IN  IF 1 < i /\ i < Len(name) THEN SubSeq(name, i, Len(name)) ELSE <<>>

\* PurePath.stem
stem(name) ==
  LET i == rfind(name)
  IN  IF 1 < i /\ i < Len(name) THEN SubSeq(name, 1, i - 1) ELSE name

\* PurePath.with_name: only defined for a path with a name
with_name(p, name) == [p EXCEPT !.name = name]

\* PurePath.with_stem(stem) == with_name(stem + self.suffix)
with_stem(p, s) == with_name(p, s \o suffix(p.name))

\* the marker appended to the whole name, after the extension
PathJa_appended(p) == with_name(p, p.name \o JA)

\* path.with_stem(f"{path.stem}_ja")
PathJa(p) == with_stem(p, stem(p.name) \o JA)

\* ------------------------------------------------------------ helpers
NoWait == [via |-> "none", timeout |-> 0]

Enter(s) == stages' = Append(stages, s)

\* an exception without a message of the program's own
NoMessage == <<>>

\* raise: the run is abandoned in Failed(reason)
RaiseWith(r, m) ==
  /\ pc' = "Failed"
  /\ reason' = r
  /\ message' = m
  /\ Enter("Failed")

\* the exception is caught and noted, and the workflow goes on
Raise_swallowed(r) ==
  /\ reason' = r
  /\ UNCHANGED <<pc, message, stages>>

Raise(r) == RaiseWith(r, NoMessage)

\* one operation on the browser or the file system, and how it ended
Log(op, ok) == acts' = Append(acts, [op |-> op, ok |-> ok])

\* One evaluation of WebDriverWait(driver, timeout).until(clickable): the
\* condition is tested first, the deadline after it, then the wait sleeps
\* one poll interval.
Until(at, timeout) ==
  IF at <= elapsed THEN "clickable"
  ELSE IF elapsed >= timeout * TicksPerSecond THEN "TimeoutException"
  ELSE "sleep"

\* the completion wait of each driver: save() -> click() in jppdf,
\* translate() -> wait_button(xpath, TRANSLATION_TIMEOUT) in pdfjp
CompletionWait(v) ==
  IF v = "jppdf" THEN [via |-> "click", timeout |-> CLICK_TIMEOUT]
  ELSE [via |-> "wait_button", timeout |-> TRANSLATION_TIMEOUT]

\* ------------------------------------------------------------ initial state
Init ==
  /\ variant \in Variants
  /\ debug \in BOOLEAN
  /\ path \in Paths
  /\ path_ja = Unset
  /\ pc = "Idle"
  /\ life = "new"
  /\ reason = "none"
  /\ options = "none"
  /\ driverAttr = FALSE
  /\ session = "none"
  /\ tmpSession = "none"
  /\ staging = {}
  /\ destPre \in {"absent", "old"}
  /\ dest = destPre
  /\ translateAt \in TranslateTimes
  /\ downloadAt \in DownloadTimes
  /\ stagedAt \in StagedTimes
  /\ elapsed = 0
  /\ waits = [translate |-> NoWait, download |-> NoWait]
  /\ attempts = 0
  /\ observed = FALSE
  /\ delErrors = 0
  /\ quitCalls = 0
  /\ stages = <<"Idle">>
  /\ clock = 0
  /\ message = NoMessage
  /\ acts = <<>>

\* ------------------------------------------------------------ Driver.__init__
\* Options.__init__: the outcomes of building the browser configuration
OptionsOutcomes == {"ok", "tmpdir_error", "user_agent_error"}

Driver__init__ ==
  /\ life = "new"
  /\ life' = "alive"
  /\ UNCHANGED <<variant, debug, path, staging, dest, destPre, translateAt,
                 downloadAt, stagedAt, elapsed, waits, attempts, observed,
                 delErrors, quitCalls, clock, acts>>
  /\ IF path.name = <<>>
     THEN \* with_stem raises ValueError: the path has an empty name
          /\ Raise("ValueError")
          /\ UNCHANGED <<path_ja, options, driverAttr, session, tmpSession>>
     ELSE /\ path_ja' = PathJa(path)
          /\ \E o \in OptionsOutcomes, launched \in BOOLEAN :
               \/ /\ o = "tmpdir_error"
                  /\ options' = "noattr"
                  /\ Raise("OSError")
                  /\ UNCHANGED <<driverAttr, session, tmpSession>>
               \/ /\ o = "user_agent_error"
                  /\ ~debug
                  /\ options' = "dir"
                  /\ tmpSession' \in {"none", "closed"}
                  /\ Raise("WebDriverException")
                  /\ UNCHANGED <<driverAttr, session>>
               \/ /\ o = "ok"
                  /\ options' = "dir"
                  /\ tmpSession' = IF debug THEN "none" ELSE "closed"
                  /\ IF launched
                     THEN /\ driverAttr' = TRUE
                          /\ session' = "open"
                          /\ pc' = "SessionReady"
                          /\ Enter("SessionReady")
                          /\ UNCHANGED <<reason, message>>
                     ELSE /\ Raise("WebDriverException")
                          /\ UNCHANGED <<driverAttr, session>>

\* ------------------------------------------------------------ Driver.run
\* what run() never touches
Fixed == <<variant, debug, path, path_ja, life, options, driverAttr, session,
           tmpSession, destPre, delErrors, quitCalls, translateAt, downloadAt,
           stagedAt>>

\* self.driver.get(Driver.url)
Get ==
  /\ life = "alive" /\ pc = "SessionReady"
  /\ \E loaded \in BOOLEAN :
       /\ Log("navigate", loaded)
       /\ IF loaded
          THEN pc' = "PageLoaded" /\ Enter("PageLoaded") /\ UNCHANGED <<reason, message>>
          ELSE Raise("WebDriverException")
  /\ UNCHANGED Fixed
  /\ UNCHANGED <<staging, dest, elapsed, waits, attempts, clock, observed>>

\* a missing file input sends the workflow back to reload the page
select_file_retry ==
  /\ life = "alive" /\ pc = "PageLoaded"
  /\ \E found \in BOOLEAN :
       /\ Log("set_file_input", found)
       /\ IF found
          THEN pc' = "FileSelected" /\ Enter("FileSelected")
          ELSE pc' = "SessionReady" /\ Enter("SessionReady")
  /\ UNCHANGED Fixed
  /\ UNCHANGED <<reason, message, staging, dest, elapsed, waits, attempts,
                 clock, observed>>

\* select_file: find_element(By.NAME, "file") and send_keys
select_file ==
  /\ life = "alive" /\ pc = "PageLoaded"
  /\ \E found \in BOOLEAN :
       /\ Log("set_file_input", found)
       /\ IF found
          THEN pc' = "FileSelected" /\ Enter("FileSelected") /\ UNCHANGED <<reason, message>>
          ELSE Raise("NoSuchElementException")
  /\ UNCHANGED Fixed
  /\ UNCHANGED <<staging, dest, elapsed, waits, attempts, clock, observed>>

\* jppdf translate(): self.click(xpath) builds WebDriverWait(self.driver, 10);
translate_jppdf ==
  /\ life = "alive" /\ pc = "FileSelected" /\ variant = "jppdf"
  /\ waits' = [waits EXCEPT !.translate =
                 [via |-> "click", timeout |-> CLICK_TIMEOUT]]
  /\ elapsed' = 0
  /\ pc' = "WaitTranslate"
  /\ UNCHANGED Fixed
  /\ UNCHANGED <<reason, message, staging, dest, attempts, clock, observed,
                 stages, acts>>

\* click(): wait.until(element_to_be_clickable) and button.click()
click_translate ==
  /\ life = "alive" /\ pc = "WaitTranslate"
  /\ LET r == Until(translateAt, waits.translate.timeout)
     IN  \/ /\ r = "clickable"
            /\ Log("click_translate", TRUE)
            /\ pc' = "TranslationRequested"
            /\ Enter("TranslationRequested")
            /\ UNCHANGED <<reason, message, elapsed>>
         \/ /\ r = "TimeoutException"
            /\ Log("click_translate", FALSE)
            /\ Raise("TimeoutException")
            /\ UNCHANGED elapsed
         \/ /\ r = "sleep"
            /\ elapsed' = elapsed + 1
            /\ UNCHANGED <<pc, reason, message, stages, acts>>
  /\ UNCHANGED Fixed
  /\ UNCHANGED <<staging, dest, waits, attempts, clock, observed>>

\* the translate control is waited for through the click helper
translate_pdfjp_waits ==
  /\ life = "alive" /\ pc = "FileSelected" /\ variant = "pdfjp"
  /\ waits' = [waits EXCEPT !.translate =
                 [via |-> "click", timeout |-> CLICK_TIMEOUT]]
  /\ elapsed' = 0
  /\ pc' = "WaitTranslate"
  /\ UNCHANGED Fixed
  /\ UNCHANGED <<reason, message, staging, dest, attempts, clock, observed,
                 stages, acts>>

\* the translate control is looked up and never clicked
translate_pdfjp_no_click ==
  /\ life = "alive" /\ pc = "FileSelected" /\ variant = "pdfjp"
  /\ waits' = [waits EXCEPT !.translate =
                 [via |-> "find_element", timeout |-> 0]]
  /\ IF translateAt = 0
     THEN /\ pc' = "TranslationRequested"
          /\ Enter("TranslationRequested")
          /\ UNCHANGED <<reason, message, acts>>
     ELSE Raise("NoSuchElementException") /\ UNCHANGED acts
  /\ UNCHANGED Fixed
  /\ UNCHANGED <<staging, dest, elapsed, attempts, clock, observed>>

\* pdfjp translate(), first half: find_element(By.XPATH, xpath) with no wait
\* and button.click()
translate_pdfjp ==
  /\ life = "alive" /\ pc = "FileSelected" /\ variant = "pdfjp"
  /\ waits' = [waits EXCEPT !.translate =
                 [via |-> "find_element", timeout |-> 0]]
  /\ Log("click_translate", translateAt = 0)
  /\ IF translateAt = 0
     THEN /\ pc' = "TranslationRequested"
          /\ Enter("TranslationRequested")
          /\ UNCHANGED <<reason, message>>
     ELSE Raise("NoSuchElementException")
  /\ UNCHANGED Fixed
  /\ UNCHANGED <<staging, dest, elapsed, attempts, clock, observed>>

\* the timeout reaches the deadline and the wait goes on to the click anyway
wait_download_no_timeout ==
  /\ life = "alive" /\ pc = "WaitDownload"
  /\ IF Until(downloadAt, waits.download.timeout) = "sleep"
     THEN /\ elapsed' = elapsed + 1
          /\ UNCHANGED <<pc, reason, message, stages>>
     ELSE /\ pc' = "TranslationReady"
          /\ Enter("TranslationReady")
          /\ UNCHANGED <<reason, message, elapsed>>
  /\ UNCHANGED Fixed
  /\ UNCHANGED <<staging, dest, waits, attempts, clock, observed, acts>>

\* the wait has no deadline: it polls for as long as the control is missing
wait_download_forever ==
  /\ life = "alive" /\ pc = "WaitDownload"
  /\ IF downloadAt <= elapsed
     THEN /\ pc' = "TranslationReady"
          /\ Enter("TranslationReady")
          /\ UNCHANGED <<reason, message, elapsed>>
     ELSE /\ elapsed' = IF elapsed <= TRANSLATION_TIMEOUT * TicksPerSecond THEN elapsed + 1 ELSE elapsed
          /\ UNCHANGED <<pc, reason, message, stages>>
  /\ UNCHANGED Fixed
  /\ UNCHANGED <<staging, dest, waits, attempts, clock, observed, acts>>

\* the completion wait begins: save() -> click(xpath) in jppdf,
\* wait_button(xpath, TRANSLATION_TIMEOUT) in pdfjp
begin_wait_download ==
  /\ life = "alive" /\ pc = "TranslationRequested"
  /\ waits' = [waits EXCEPT !.download = CompletionWait(variant)]
  /\ elapsed' = 0
  /\ pc' = "WaitDownload"
  /\ UNCHANGED Fixed
  /\ UNCHANGED <<reason, message, staging, dest, attempts, clock, observed,
                 stages, acts>>

\* wait.until(element_to_be_clickable((By.XPATH, xpath)))
wait_download ==
  /\ life = "alive" /\ pc = "WaitDownload"
  /\ LET r == Until(downloadAt, waits.download.timeout)
     IN  \/ /\ r = "clickable"
            /\ pc' = "TranslationReady"
            /\ Enter("TranslationReady")
            /\ UNCHANGED <<reason, message, elapsed, acts>>
         \/ /\ r = "TimeoutException"
            /\ Log("click_download", FALSE)
            /\ Raise("TimeoutException")
            /\ UNCHANGED elapsed
         \/ /\ r = "sleep"
            /\ elapsed' = elapsed + 1
            /\ UNCHANGED <<pc, reason, message, stages, acts>>
  /\ UNCHANGED Fixed
  /\ UNCHANGED <<staging, dest, waits, attempts, clock, observed>>

\* button.click() on the download control; the browser starts writing the
\* file under the uploaded file's name
click_download ==
  /\ life = "alive" /\ pc = "TranslationReady"
  /\ Log("click_download", TRUE)
  /\ attempts' = 0
  /\ clock' = 0
  /\ pc' = "DownloadTriggered"
  /\ Enter("DownloadTriggered")
  /\ UNCHANGED Fixed
  /\ UNCHANGED <<reason, message, staging, dest, elapsed, waits, observed>>

\* ------------------------------------------------------------ wait / wait_to_finish
\* the file the watcher looks for: self.options.download_dir / self.path.name
StagedName == path.name

\* msg = f"Timeout: {timeout} sec"
TimeoutMessage(timeout) == <<"Timeout: ", timeout, " sec">>

\* the download directory after the browser has run until tick t
Written(t) ==
  IF stagedAt <= t THEN staging \cup {StagedName} ELSE staging

\* the for loop ends without a raise when its attempts are used up
watch_check_no_raise ==
  /\ life = "alive" /\ pc = "DownloadTriggered"
  /\ attempts < WATCH_TIMEOUT
  /\ attempts' = attempts + 1
  /\ clock' = clock + TicksPerSecond
  /\ staging' = Written(clock')
  /\ Log("poll", StagedName \in staging')
  /\ IF StagedName \in staging'
     THEN /\ observed' = TRUE
          /\ pc' = "Detected"
          /\ UNCHANGED <<reason, message, stages>>
     ELSE /\ UNCHANGED observed
          /\ IF attempts' = WATCH_TIMEOUT
             THEN pc' = "Committed" /\ UNCHANGED <<reason, message, stages>>
             ELSE UNCHANGED <<pc, reason, message, stages>>
  /\ UNCHANGED Fixed
  /\ UNCHANGED <<dest, elapsed, waits>>

\* the destination is removed before the existence check
watch_check_unlink_first ==
  /\ life = "alive" /\ pc = "DownloadTriggered"
  /\ attempts < WATCH_TIMEOUT
  /\ attempts' = attempts + 1
  /\ clock' = clock + TicksPerSecond
  /\ dest' = "absent"
  /\ staging' = Written(clock')
  /\ Log("poll", StagedName \in staging')
  /\ IF StagedName \in staging'
     THEN /\ observed' = TRUE
          /\ pc' = "Detected"
          /\ UNCHANGED <<reason, message, stages>>
     ELSE /\ UNCHANGED observed
          /\ IF attempts' = WATCH_TIMEOUT
             THEN RaiseWith("TimeoutError", TimeoutMessage(WATCH_TIMEOUT))
             ELSE UNCHANGED <<pc, reason, message, stages>>
  /\ UNCHANGED Fixed
  /\ UNCHANGED <<elapsed, waits>>

\* the file is looked for first and the sleep comes after the check
watch_check_sleep_after ==
  /\ life = "alive" /\ pc = "DownloadTriggered"
  /\ attempts < WATCH_TIMEOUT
  /\ attempts' = attempts + 1
  /\ staging' = Written(clock)
  /\ Log("poll", StagedName \in staging')
  /\ IF StagedName \in staging'
     THEN /\ observed' = TRUE
          /\ pc' = "Detected"
          /\ UNCHANGED <<reason, message, stages, clock>>
     ELSE /\ UNCHANGED observed
          /\ clock' = clock + TicksPerSecond
          /\ IF attempts' = WATCH_TIMEOUT
             THEN RaiseWith("TimeoutError", TimeoutMessage(WATCH_TIMEOUT))
             ELSE UNCHANGED <<pc, reason, message, stages>>
  /\ UNCHANGED Fixed
  /\ UNCHANGED <<dest, elapsed, waits>>

\* one iteration of "for _ in range(timeout)": time.sleep(1), during which
\* the browser may finish writing the file, then path.exists(); the for's
\* else branch raises TimeoutError after the last iteration
watch_check ==
  /\ life = "alive" /\ pc = "DownloadTriggered"
  /\ attempts < WATCH_TIMEOUT
  /\ attempts' = attempts + 1
  /\ clock' = clock + TicksPerSecond
  /\ staging' = Written(clock')
  /\ Log("poll", StagedName \in staging')
  /\ IF StagedName \in staging'
     THEN /\ observed' = TRUE
          /\ pc' = "Detected"
          /\ UNCHANGED <<reason, message, stages>>
     ELSE /\ UNCHANGED observed
          /\ IF attempts' = WATCH_TIMEOUT
             THEN RaiseWith("TimeoutError", TimeoutMessage(WATCH_TIMEOUT))
             ELSE UNCHANGED <<pc, reason, message, stages>>
  /\ UNCHANGED Fixed
  /\ UNCHANGED <<dest, elapsed, waits>>

\* the old file is left in place for the rename to overwrite
unlink_skipped ==
  /\ life = "alive" /\ pc = "Detected"
  /\ pc' = "Unlinked"
  /\ UNCHANGED Fixed
  /\ UNCHANGED <<reason, message, stages, dest, staging, elapsed, waits,
                 attempts, clock, observed, acts>>

\* self.path_ja.unlink(missing_ok=True)
unlink ==
  /\ life = "alive" /\ pc = "Detected"
  /\ \E ok \in BOOLEAN :
       /\ Log("unlink", ok)
       /\ IF ok
          THEN dest' = "absent" /\ pc' = "Unlinked" /\ UNCHANGED <<reason, message, stages>>
          ELSE Raise("OSError") /\ UNCHANGED dest
  /\ UNCHANGED Fixed
  /\ UNCHANGED <<staging, elapsed, waits, attempts, clock, observed>>

\* the staged file is dropped instead of being moved
rename_drops_file ==
  /\ life = "alive" /\ pc = "Unlinked"
  /\ staging' = staging \ {StagedName}
  /\ Log("rename", TRUE)
  /\ pc' = "Committed"
  /\ UNCHANGED Fixed
  /\ UNCHANGED <<reason, message, stages, dest, elapsed, waits, attempts,
                 clock, observed>>

\* path.rename(self.path_ja); break
rename ==
  /\ life = "alive" /\ pc = "Unlinked"
  /\ \E ok \in BOOLEAN :
       /\ Log("rename", ok)
       /\ IF ok
          THEN /\ dest' = "new"
               /\ staging' = staging \ {StagedName}
               /\ pc' = "Committed"
               /\ UNCHANGED <<reason, message, stages>>
          ELSE Raise("OSError") /\ UNCHANGED <<dest, staging>>
  /\ UNCHANGED Fixed
  /\ UNCHANGED <<elapsed, waits, attempts, clock, observed>>

\* save() returns; run(): logger.info("Done.")
finish ==
  /\ life = "alive" /\ pc = "Committed"
  /\ pc' = "Done"
  /\ Enter("Done")
  /\ UNCHANGED Fixed
  /\ UNCHANGED <<reason, message, staging, dest, elapsed, waits, attempts,
                 clock, observed, acts>>

\* ------------------------------------------------------------ teardown
Terminal == pc \in {"Done", "Failed"}

RunState == <<variant, debug, path, path_ja, pc, reason, driverAttr,
              tmpSession, dest, destPre, translateAt, downloadAt, stagedAt,
              elapsed, waits, attempts, observed, stages, clock, message,
              acts>>

\* the finalizer leaves the browser running
Driver__del__no_quit ==
  /\ life = "alive" /\ Terminal
  /\ life' = "driver_deleted"
  /\ UNCHANGED <<session, quitCalls, delErrors>>
  /\ UNCHANGED RunState
  /\ UNCHANGED <<options, staging>>

\* Driver.__del__: self.driver.quit(), an AttributeError (ignored by the
\* interpreter) when __init__ never assigned self.driver
Driver__del__ ==
  /\ life = "alive" /\ Terminal
  /\ life' = "driver_deleted"
  /\ IF driverAttr
     THEN /\ session' = "closed"
          /\ quitCalls' = quitCalls + 1
          /\ UNCHANGED delErrors
     ELSE /\ delErrors' = delErrors + 1
          /\ UNCHANGED <<session, quitCalls>>
  /\ UNCHANGED RunState
  /\ UNCHANGED <<options, staging>>

\* Options.__del__: self._download_dir.cleanup(), an AttributeError when
\* TemporaryDirectory() itself had failed
Options__del__ ==
  /\ life = "driver_deleted" /\ options \in {"dir", "noattr"}
  /\ life' = "exited"
  /\ IF options = "dir"
     THEN options' = "cleaned" /\ staging' = {} /\ UNCHANGED delErrors
     ELSE delErrors' = delErrors + 1 /\ UNCHANGED <<options, staging>>
  /\ UNCHANGED RunState
  /\ UNCHANGED <<session, quitCalls>>

\* main() ends with no Options object to finalize
main_exit ==
  /\ life = "driver_deleted" /\ options = "none"
  /\ life' = "exited"
  /\ UNCHANGED RunState
  /\ UNCHANGED <<session, quitCalls, options, staging, delErrors>>

\* ------------------------------------------------------------ specification
Next ==
  \/ Driver__init__
  \/ Get
  \/ select_file
  \/ translate_jppdf
  \/ click_translate
  \/ translate_pdfjp
  \/ begin_wait_download
  \/ wait_download
  \/ click_download
  \/ watch_check
  \/ unlink
  \/ rename
  \/ finish
  \/ Driver__del__
  \/ Options__del__
  \/ main_exit

Spec == Init /\ [][Next]_vars

\* Nothing preempts the single thread: every step that can be taken is taken.
FairSpec == Spec /\ WF_vars(Next)

\* ------------------------------------------------------------ claims
\* position j of a name starts its final extension: a dot that is neither
\* the first nor the last character and has no dot after it
FinalExtensionAt(name, j) ==
  /\ 1 < j /\ j < Len(name)
  /\ name[j] = "."
  /\ \A m \in (j + 1)..Len(name) : name[m] # "."

\* C1: for every source path with a non-empty file name, path_ja is the
\* source path with "_ja" inserted immediately before the final extension
\* (at the end of a name that has none), in the same directory as the
\* source, and it differs from the source path.
C1_DestinationPath ==
  (life # "new" /\ path.name # <<>>) =>
     LET n  == path.name
         js == { j \in 1..Len(n) : FinalExtensionAt(n, j) }
     IN  /\ path_ja.parent = path.parent
         /\ path_ja # path
         /\ IF js = {}
            THEN path_ja.name = n \o JA
            ELSE \A j \in js :
                   path_ja.name = SubSeq(n, 1, j - 1) \o JA \o SubSeq(n, j, Len(n))

C1_Witness ==
  /\ life # "new"
  /\ path = [parent |-> <<"docs">>, name |-> <<"a", ".", "a">>]
  /\ path_ja = [parent |-> <<"docs">>, name |-> <<"a", "_", "j", "a", ".", "a">>]

\* C2: when a file existed at path_ja before the run, every run that ends
\* in Done leaves the newly translated content there, not the old one.
C2_SuccessReplaces ==
  (destPre = "old" /\ pc = "Done") => dest = "new"

C2_Witness ==
  destPre = "old" /\ pc = "Done" /\ dest = "new"

\* C3: the workflow is in Done only if an existence check of the watcher on
\* the staged file has returned true earlier in the run.
C3_DoneOnlyAfterObserved ==
  pc = "Done" => observed

C3_Witness ==
  pc = "Done" /\ observed /\ attempts = WATCH_TIMEOUT

\* the completion wait has begun
CompletionWaitBegun == waits.download.via # "none"

WatcherStates == {"DownloadTriggered", "Detected", "Unlinked", "Committed", "Done"}

\* C4: when the download control does not become clickable within the
\* completion timeout, the watcher is never started, the file at path_ja
\* stays as it was before the run, and the run ends failed with a timeout.
C4_CompletionTimeout ==
  (CompletionWaitBegun /\ downloadAt > waits.download.timeout * TicksPerSecond) =>
     /\ pc \notin WatcherStates \cup {"TranslationReady"}
     /\ attempts = 0 /\ ~observed
     /\ dest = destPre
     /\ Terminal => (pc = "Failed" /\ reason = "TimeoutException")

C4_Witness ==
  /\ CompletionWaitBegun
  /\ downloadAt > waits.download.timeout * TicksPerSecond
  /\ pc = "Failed" /\ reason = "TimeoutException"
  /\ destPre = "old" /\ dest = "old"
  /\ life = "exited"

\* the watcher has been started
WatcherBegun == pc \in WatcherStates \/ attempts > 0

\* C5: when the staged file is absent at every check of the watcher, the
\* run ends failed with a timeout and the file at path_ja is what it was
\* before the run: not deleted, not replaced, not created.
C5_StagedNeverAppears ==
  (WatcherBegun /\ stagedAt > WATCH_TIMEOUT * TicksPerSecond) =>
     /\ dest = destPre
     /\ ~observed
     /\ Terminal => (pc = "Failed" /\ reason = "TimeoutError")

C5_Witness ==
  /\ stagedAt > WATCH_TIMEOUT * TicksPerSecond
  /\ attempts = WATCH_TIMEOUT
  /\ pc = "Failed" /\ reason = "TimeoutError"
  /\ destPre = "old" /\ dest = "old"

\* nothing is left behind: no open browser session, no download directory
NoLeak ==
  /\ session # "open"
  /\ tmpSession # "open"
  /\ options # "dir"

\* C6: every run, whether it ends in Done or fails at any step, goes on to
\* a state in which the browser session is closed and the download
\* directory removed, and the process never ends with either left behind.
C6_TeardownAlways ==
  /\ <>(life = "exited")
  /\ [](life = "exited" => NoLeak)

C6_Witness ==
  /\ life = "exited"
  /\ pc = "Failed" /\ reason = "TimeoutError"
  /\ session = "closed" /\ options = "cleaned" /\ quitCalls = 1

\* setup failed part-way: Options() or Chrome() raised before self.driver
\* was assigned
SetupPartlyFailed ==
  pc = "Failed" /\ options # "none" /\ ~driverAttr

\* C7: teardown of the Driver runs without error after a setup that failed
\* part-way, and leaves the session closed however often it is invoked.
C7_TeardownSafe ==
  (SetupPartlyFailed /\ life \in {"driver_deleted", "exited"}) =>
     (delErrors = 0 /\ session # "open")

\* the file input was found and given the source path
UploadSucceeded ==
  \E i \in DOMAIN stages : stages[i] = "FileSelected"

\* C8: when the upload succeeds, the translate control becomes clickable
\* within the generic UI timeout, the download control within the
\* completion timeout and the staged file within the polling budget, the
\* run ends in Done, the file at path_ja exists and the staged file is gone
\* from the download directory.
C8_EndToEnd ==
  ( /\ UploadSucceeded
    /\ translateAt <= CLICK_TIMEOUT * TicksPerSecond
    /\ downloadAt <= CompletionWait(variant).timeout * TicksPerSecond
    /\ stagedAt <= WATCH_TIMEOUT * TicksPerSecond
    /\ Terminal )
  => (pc = "Done" /\ dest = "new" /\ StagedName \notin staging)

\* the workflow state of the specification that a position of run() is in
StageOf(p) ==
  CASE p = "WaitTranslate" -> "FileSelected"
    [] p = "WaitDownload" -> "TranslationRequested"
    [] p \in {"Detected", "Unlinked", "Committed"} -> "DownloadTriggered"
    [] OTHER -> p

StageOrder ==
  <<"Idle", "SessionReady", "PageLoaded", "FileSelected",
    "TranslationRequested", "TranslationReady", "DownloadTriggered", "Done">>

Rank(st) ==
  IF st = "Failed" THEN Len(StageOrder) + 1
  ELSE CHOOSE i \in DOMAIN StageOrder : StageOrder[i] = st

\* C9: every step of a run either stays in its workflow state, moves to the
\* next state of the linear order, or fails; a state is never entered a
\* second time, and nothing of the workflow runs again after a failure.
C9_LinearOrder ==
  [][ LET a == StageOf(pc)
          b == StageOf(pc')
      IN  /\ \/ b = a
             \/ a # "Failed" /\ b = "Failed"
             \/ a # "Failed" /\ b # "Failed" /\ Rank(b) = Rank(a) + 1
          /\ b # a => \A i \in DOMAIN stages : stages[i] # b
          /\ stages' = IF b = a THEN stages ELSE Append(stages, b)
          /\ a = "Failed" => UNCHANGED <<pc, reason, dest, elapsed, attempts, observed>>
    ]_vars

C9_Witness ==
  /\ pc = "Done"
  /\ stages = StageOrder

\* C10: the wait for the download control uses a timeout of its own, not
\* the wait of the generic click helper, and one at least as large as the
\* generic UI-click timeout.
C10_IndependentTimeout ==
  CompletionWaitBegun =>
     /\ waits.download.via # "click"
     /\ waits.download.timeout >= CLICK_TIMEOUT

\* the operations of one kind performed so far
Performed(op) == SelectSeq(acts, LAMBDA a : a.op = op)

\* C11: the watcher looks for the staged file once per second, each look
\* after a sleep of one second, at most 10 times; it stops at the first
\* look that finds the file, and it raises its timeout, whose message
\* reports the bound of 10 seconds, exactly when 10 looks found nothing.
C11_WatcherPolling ==
  LET polls == Performed("poll")
      n     == Len(polls)
  IN  /\ n = attempts /\ n <= 10
      /\ clock = n * TicksPerSecond
      /\ \A i \in 1..n : polls[i].ok => i = n
      /\ observed <=> (n > 0 /\ polls[n].ok)
      /\ (pc = "Failed" /\ reason = "TimeoutError")
           <=> (n = 10 /\ \A i \in 1..n : ~polls[i].ok)
      /\ reason = "TimeoutError" => message = <<"Timeout: ", 10, " sec">>
      /\ (n > 0 /\ n < 10 /\ ~polls[n].ok) => pc = "DownloadTriggered"

C11_Witness ==
  /\ pc = "Failed" /\ reason = "TimeoutError"
  /\ Len(Performed("poll")) = 10
  /\ clock = 10 * TicksPerSecond
  /\ message = <<"Timeout: ", 10, " sec">>

\* the rename has succeeded
Renamed == Len(acts) > 0 /\ acts[Len(acts)] = [op |-> "rename", ok |-> TRUE]

\* C12: at the first detection of the staged file the watcher removes the
\* file at path_ja, only then renames the staged file to path_ja, and does
\* so at most once in a run; once the rename has succeeded nothing fails
\* any more and the run ends in Done.
C12_CommitPoint ==
  /\ [](LET n == Len(acts)
        IN  /\ Len(Performed("rename")) <= 1
            /\ Len(Performed("unlink")) <= 1
            /\ \A i \in 1..n :
                 acts[i].op = "rename" =>
                   /\ i > 2
                   /\ acts[i - 1] = [op |-> "unlink", ok |-> TRUE]
                   /\ acts[i - 2] = [op |-> "poll", ok |-> TRUE]
            /\ \A i \in 1..n :
                 acts[i].op = "unlink" =>
                   /\ i > 1
                   /\ acts[i - 1] = [op |-> "poll", ok |-> TRUE]
            /\ pc = "Unlinked" => dest = "absent"
            /\ Renamed => (pc \in {"Committed", "Done"} /\ dest = "new"))
  /\ [][Renamed => (Renamed' /\ pc' \in {"Committed", "Done"} /\ dest' = "new")]_vars
  /\ (Renamed ~> pc = "Done")

C12_Witness ==
  /\ Renamed /\ pc = "Done" /\ destPre = "old" /\ dest = "new"
  /\ life = "exited"

\* a step of the workflow failed: a control was not found or a wait ran out
StepFailures == {"NoSuchElementException", "TimeoutException", "TimeoutError"}
StepFailed == reason \in StepFailures

\* C13: when a step of run() fails with a missing element or a timeout, the
\* run is in Failed at once, the failed operation is the last one performed
\* (no later click, poll, unlink or rename), and the file at path_ja is
\* what it was before the run.
C13_FailureIsFatal ==
  /\ [](StepFailed =>
          /\ pc = "Failed"
          /\ dest = destPre
          /\ Len(acts) > 0 /\ ~acts[Len(acts)].ok
          /\ Len(Performed("unlink")) = 0 /\ Len(Performed("rename")) = 0)
  /\ [][StepFailed =>
          UNCHANGED <<pc, reason, message, acts, dest, stages, elapsed,
                      attempts, clock, observed>>]_vars

C13_Witness ==
  /\ pc = "Failed" /\ reason = "TimeoutException"
  /\ acts = << [op |-> "navigate", ok |-> TRUE],
               [op |-> "set_file_input", ok |-> TRUE],
               [op |-> "click_translate", ok |-> FALSE] >>
  /\ destPre = "old" /\ dest = "old"
  /\ life = "exited"

\* C14: every run comes to Done or Failed: no wait goes beyond its bound
\* (the timeout of a WebDriverWait, the 10 looks of the watcher), whatever
\* the page and the file system do.
C14_Terminates ==
  /\ <>Terminal
  /\ [](/\ pc = "WaitTranslate" => elapsed <= waits.translate.timeout * TicksPerSecond
        /\ pc = "WaitDownload" => elapsed <= waits.download.timeout * TicksPerSecond
        /\ attempts <= WATCH_TIMEOUT
        /\ clock <= WATCH_TIMEOUT * TicksPerSecond)

C14_Witness ==
  /\ pc = "Failed" /\ reason = "TimeoutException"
  /\ variant = "pdfjp"
  /\ elapsed = TRANSLATION_TIMEOUT * TicksPerSecond

\* every control is clickable at the moment the driver first looks for it
ControlsReady == translateAt = 0 /\ downloadAt = 0

\* the look of the watcher that finds the staged file, 0 when none does
FindingPoll ==
  LET hits == { i \in 1..10 : stagedAt <= i * TicksPerSecond }
  IN  IF hits = {} THEN 0 ELSE CHOOSE i \in hits : \A j \in hits : i <= j

\* the operations of a run in which nothing fails, in order; no part of it
\* depends on the driver
Script ==
  <<"navigate", "set_file_input", "click_translate", "click_download">>
  \o [i \in 1..(IF FindingPoll = 0 THEN 10 ELSE FindingPoll) |-> "poll"]
  \o (IF FindingPoll = 0 THEN <<>> ELSE <<"unlink", "rename">>)

\* C15: with every control clickable when first sought, the operations a
\* driver performs, their order, the state the run ends in and the content
\* left at path_ja are fixed by the environment alone (one script, cut at
\* the first operation the environment fails), so the jppdf and the pdfjp
\* driver agree on all of them.
C15_SameScript ==
  ControlsReady =>
    LET n == Len(acts)
    IN  /\ n <= Len(Script)
        /\ \A i \in 1..n :
             /\ acts[i].op = Script[i]
             /\ acts[i].op \in {"click_translate", "click_download"} => acts[i].ok
             /\ acts[i].op = "poll" => (acts[i].ok <=> i - 4 = FindingPoll)
             /\ (i < n /\ acts[i].op # "poll") => acts[i].ok
        /\ pc = "Done" => (n = Len(Script) /\ acts[n].ok /\ FindingPoll # 0)
        /\ (pc = "Failed" /\ session # "none") =>
             /\ n > 0 /\ ~acts[n].ok
             /\ acts[n].op = "poll" => n = Len(Script)
        /\ (Terminal /\ session = "none") => n = 0
        /\ Terminal =>
             dest = IF n > 0 /\ acts[n] = [op |-> "rename", ok |-> TRUE] THEN "new"
                    ELSE IF Len(Performed("unlink")) > 0
                            /\ Performed("unlink")[1].ok THEN "absent"
                    ELSE destPre

C15_Witness ==
  /\ ControlsReady /\ variant = "pdfjp" /\ pc = "Done"
  /\ Len(acts) = Len(Script)
  /\ Len(Performed("poll")) = 3
  /\ dest = "new"

\* C16: in a run that began with a file at path_ja, the file at path_ja is
\* at every moment the old one or the newly translated one: never missing.
C16_DestNeverLost ==
  destPre = "old" => dest \in {"old", "new"}

\* the translate step has been attempted
TranslateTried == waits.translate.via # "none"

\* C17: pdfjp looks the translate control up once, with no wait: when the
\* control is not there as file selection completes, the run fails at once
\* with element-not-found and the completion wait never begins; jppdf
\* waits for the same control, up to 10 seconds, before it fails.
C17_TranslateLookup ==
  /\ Len(Performed("click_translate")) <= 1
  /\ (variant = "pdfjp" /\ TranslateTried) =>
        /\ waits.translate = [via |-> "find_element", timeout |-> 0]
        /\ pc # "WaitTranslate"
        /\ translateAt > 0 =>
             /\ pc = "Failed" /\ reason = "NoSuchElementException"
             /\ ~CompletionWaitBegun
             /\ elapsed = 0
  /\ (variant = "jppdf" /\ TranslateTried) =>
        /\ waits.translate.timeout = 10
        /\ (translateAt > 0 /\ translateAt <= 10 * TicksPerSecond) =>
             /\ pc = "WaitTranslate" => elapsed <= translateAt
             /\ pc = "Failed" => Len(Performed("click_translate")) = 1
                                 /\ Performed("click_translate")[1].ok
        /\ (translateAt > 10 * TicksPerSecond /\ pc = "Failed") =>
             /\ reason = "TimeoutException"
             /\ elapsed = 10 * TicksPerSecond
             /\ ~CompletionWaitBegun

C17_Witness ==
  /\ variant = "pdfjp" /\ translateAt = 4
  /\ pc = "Failed" /\ reason = "NoSuchElementException"
  /\ ~CompletionWaitBegun
  /\ life = "exited"

====
